---- MODULE Spec2Model ----
(***************************************************************************)
(* Model of the GTMSense virtual file system (GtmFileSystemProvider), its  *)
(* pending-change tracker and its push engine, together with the entity    *)
(* codec of gtmClient.ts and the commands of extension.ts that drive them. *)
(*                                                                         *)
(* Strings are sequences of tokens.  A token is one character (" ", "\n",  *)
(* ":", a letter) or one indivisible group of characters: a section marker *)
(* such as "___INFO___" or the extension ".js".                            *)
(***************************************************************************)
EXTENDS Integers, Sequences, FiniteSets, TLC

(***************************************************************************)
(* Bounds of the model.                                                    *)
(***************************************************************************)
MaxOps == 4
MaxPushes == 2
MaxNameLen == 3

(***************************************************************************)
(* Token-string helpers.                                                   *)
(***************************************************************************)
Whitespace == {" ", "\n"}

RECURSIVE trimStart(_)
trimStart(s) ==
  IF s # <<>> /\ Head(s) \in Whitespace THEN trimStart(Tail(s)) ELSE s

RECURSIVE trimEnd(_)
trimEnd(s) ==
  IF s # <<>> /\ s[Len(s)] \in Whitespace
  THEN trimEnd(SubSeq(s, 1, Len(s) - 1))
  ELSE s

\* String.prototype.trim
trim(s) == trimEnd(trimStart(s))

IllegalChars == {"<", ">", ":", "\"", "/", "\\", "|", "?", "*"}

\* whitespace is replaced like an illegal character
sanitizeFileNameSpaces(name) ==
  trim([i \in 1..Len(name) |->
          IF name[i] \in IllegalChars \cup {" "} THEN "_" ELSE name[i]])

\* name.replace(/[<>:"/\\|?*]/g, '_').trim()
sanitizeFileName(name) ==
  trim([i \in 1..Len(name) |->
          IF name[i] \in IllegalChars THEN "_" ELSE name[i]])

ItemFileName(name) == sanitizeFileName(name) \o <<".js">>

(***************************************************************************)
(* Template section codec (gtmClient.ts).                                  *)
(***************************************************************************)
SectionNames == {"INFO", "SANDBOXED_JS_FOR_WEB_TEMPLATE", "TESTS"}

MarkerOf(n) == "___" \o n \o "___"

Markers == {MarkerOf(n) : n \in SectionNames}

MarkerName(m) == CHOOSE n \in SectionNames : MarkerOf(n) = m

getSectionExtension(sectionName) ==
  IF sectionName = "SANDBOXED_JS_FOR_WEB_TEMPLATE" THEN ".js"
  ELSE IF sectionName = "INFO" THEN ".json"
  ELSE IF sectionName = "TESTS" THEN ".json"
  ELSE ".txt"

\* the positions of the matches of /___([A-Z_]+)___/g, in document order
RECURSIVE MarkerIndexes(_, _)
MarkerIndexes(doc, from) ==
  IF from > Len(doc) THEN <<>>
  ELSE IF doc[from] \in Markers
       THEN <<from>> \o MarkerIndexes(doc, from + 1)
       ELSE MarkerIndexes(doc, from + 1)

\* the sections are cut out as they stand
parseTemplateSectionsUntrimmed(templateData) ==
  LET matches == MarkerIndexes(templateData, 1)
  IN [i \in 1..Len(matches) |->
        [name |-> MarkerName(templateData[matches[i]]),
         marker |-> templateData[matches[i]],
         content |-> SubSeq(templateData, matches[i] + 1,
                            IF i < Len(matches) THEN matches[i + 1] - 1
                            ELSE Len(templateData)),
         extension |-> getSectionExtension(MarkerName(templateData[matches[i]]))]]

parseTemplateSections(templateData) ==
  LET matches == MarkerIndexes(templateData, 1)
  IN [i \in 1..Len(matches) |->
        LET contentStart == matches[i] + 1
            contentEnd == IF i < Len(matches) THEN matches[i + 1] - 1
                          ELSE Len(templateData)
        IN [name |-> MarkerName(templateData[matches[i]]),
            marker |-> templateData[matches[i]],
            content |-> trim(SubSeq(templateData, contentStart, contentEnd)),
            extension |-> getSectionExtension(MarkerName(templateData[matches[i]]))]]

RECURSIVE rebuildTemplate(_)
rebuildTemplate(sections) ==
  IF sections = <<>> THEN <<>>
  ELSE LET s == Head(sections)
           part == <<s.marker, "\n">> \o s.content \o <<"\n">>
       IN IF Len(sections) = 1 THEN part
          ELSE part \o <<"\n">> \o rebuildTemplate(Tail(sections))

SectionIndex(sections, sectionName) ==
  IF \E i \in 1..Len(sections) : sections[i].name = sectionName
  THEN CHOOSE i \in 1..Len(sections) :
         /\ sections[i].name = sectionName
         /\ \A j \in 1..(i - 1) : sections[j].name # sectionName
  ELSE 0

\* every section is rebuilt, also when the marker is absent
updateTemplateSectionRebuilds(templateData, sectionName, newContent) ==
  LET sections == parseTemplateSections(templateData)
      sectionIndex == SectionIndex(sections, sectionName)
  IN IF sectionIndex = 0 THEN rebuildTemplate(sections)
     ELSE rebuildTemplate([sections EXCEPT ![sectionIndex].content = newContent])

updateTemplateSection(templateData, sectionName, newContent) ==
  LET sections == parseTemplateSections(templateData)
      sectionIndex == SectionIndex(sections, sectionName)
  IN IF sectionIndex = 0 THEN templateData
     ELSE rebuildTemplate([sections EXCEPT ![sectionIndex].content = newContent])

(***************************************************************************)
(* Entities (gtmClient.ts).  One record shape serves tags, variables and   *)
(* templates: a template has an empty parameter list, a tag or variable an *)
(* empty templateData.  An absent parameter list is the empty list.        *)
(***************************************************************************)
Param(type, key, value) == [type |-> type, key |-> key, value |-> value]

GtmTag(path, name, fp, html) ==
  [kind |-> "tag", path |-> path, name |-> name, fingerprint |-> fp,
   parameter |-> <<Param("template", "html", html),
                   Param("boolean", "supportDocumentWrite", <<"false">>)>>,
   templateData |-> <<>>]

GtmVariable(path, name, fp, javascript) ==
  [kind |-> "variable", path |-> path, name |-> name, fingerprint |-> fp,
   parameter |-> <<Param("template", "javascript", javascript)>>,
   templateData |-> <<>>]

GtmTemplate(path, name, fp, templateData) ==
  [kind |-> "template", path |-> path, name |-> name, fingerprint |-> fp,
   parameter |-> <<>>, templateData |-> templateData]

\* item.parameter.findIndex(p => p.key === key), 0 when there is none
ParamIndex(parameter, key) ==
  IF \E i \in 1..Len(parameter) : parameter[i].key = key
  THEN CHOOSE i \in 1..Len(parameter) :
         /\ parameter[i].key = key
         /\ \A j \in 1..(i - 1) : parameter[j].key # key
  ELSE 0

extractCode(item) ==
  LET htmlIndex == ParamIndex(item.parameter, "html")
      jsIndex == ParamIndex(item.parameter, "javascript")
  IN IF htmlIndex # 0 /\ item.parameter[htmlIndex].value # <<>>
     THEN item.parameter[htmlIndex].value
     ELSE IF jsIndex # 0 /\ item.parameter[jsIndex].value # <<>>
          THEN item.parameter[jsIndex].value
          ELSE <<>>

\* the code is written into every parameter
updateCodeEveryParameter(item, newCode) ==
  [item EXCEPT !.parameter =
     [i \in 1..Len(item.parameter) |->
        [item.parameter[i] EXCEPT !.value = newCode]]]

updateCode(item, newCode) ==
  LET htmlIndex == ParamIndex(item.parameter, "html")
      jsIndex == ParamIndex(item.parameter, "javascript")
  IN IF htmlIndex # 0
     THEN [item EXCEPT !.parameter[htmlIndex].value = newCode]
     ELSE IF jsIndex # 0
          THEN [item EXCEPT !.parameter[jsIndex].value = newCode]
          ELSE item

(***************************************************************************)
(* The remote service holds one workspace of one container.                *)
(***************************************************************************)
ContainerName == "C"
WorkspaceName == "W"
ContainerKey == ContainerName \o " (" \o WorkspaceName \o ")"

TagPaths == <<"tags/1">>
VariablePaths == <<"variables/1", "variables/2">>
TemplatePaths == <<"templates/1">>

InitialTemplateData ==
  <<"___INFO___", "\n", "\n", "x", "\n", "\n", "\n",
    "___SANDBOXED_JS_FOR_WEB_TEMPLATE___", "\n", "\n", "y", "\n">>

InitialRemote ==
  [p \in {"variables/1", "templates/1"} |->
     IF p = "variables/1"
     THEN GtmVariable(p, <<"a">>, 1, <<"x">>)
     ELSE GtmTemplate(p, <<"t">>, 1, InitialTemplateData)]

\* the service refuses a second tag, variable or template of the same name
NameFree(r, kind, name, path) ==
  \A q \in DOMAIN r : (q # path /\ r[q].kind = kind) => r[q].name # name

\* what the user may type into a file, and the names the user may enter
Contents == {<<"x">>, <<"z", "\n">>}
\* a section buffer to which the user has appended a section of tests
SectionContents == {<<"x", "\n", "___TESTS___", "\n", "z">>}
CreateNames == {<<"a">>, <<"b">>}
RenameNames == {<<"b">>, <<"a", " ">>}
DefaultTagCode == <<"<script>">>
DefaultVariableCode == <<"function">>

(***************************************************************************)
(* Addresses (URIs) and finite maps.                                       *)
(***************************************************************************)
Uri(unit, folder, dir, name) ==
  [unit |-> unit, folder |-> folder, dir |-> dir, name |-> name]

NoUri == Uri("", "", <<>>, <<>>)
NoName == <<>>

Put(f, k, v) == [a \in DOMAIN f \cup {k} |-> IF a = k THEN v ELSE f[a]]
Drop(f, k) == [a \in DOMAIN f \ {k} |-> f[a]]

FileEntry(data, gtmItem, itemType, sectionName) ==
  [data |-> data, gtmItem |-> gtmItem, itemType |-> itemType,
   sectionName |-> sectionName]

ModifiedFile(uri, fileName, itemType, gtmItem, newCode, newName, sectionName) ==
  [uri |-> uri, fileName |-> fileName, itemType |-> itemType,
   gtmItem |-> gtmItem, newCode |-> newCode, newName |-> newName,
   sectionName |-> sectionName]

\* Map operations on modifiedFiles, a Map in insertion order
ModIndex(m, uri) ==
  IF \E i \in 1..Len(m) : m[i].uri = uri
  THEN CHOOSE i \in 1..Len(m) : m[i].uri = uri
  ELSE 0

ModHas(m, uri) == ModIndex(m, uri) # 0
ModGet(m, uri) == m[ModIndex(m, uri)]
ModSet(m, rec) ==
  IF ModHas(m, rec.uri) THEN [m EXCEPT ![ModIndex(m, rec.uri)] = rec]
  ELSE Append(m, rec)
ModDelete(m, uri) == SelectSeq(m, LAMBDA r : r.uri # uri)

VARIABLES
  remote,         \* the service: path -> entity
  deleted,        \* the service: paths of deleted entities
  root,           \* this.root.entries: the loaded unit keys
  containers,     \* this.containers: the loaded unit keys
  variableNames,  \* this.variableNames: unit key -> names
  files,          \* the file nodes of the tree: uri -> FileEntry
  modifiedFiles,  \* this.modifiedFiles, in insertion order
  pc,             \* where pushChanges is suspended: idle, awaitT, awaitI
  push,           \* the locals of the running pushChanges
  result,         \* what the last pushChanges returned
  lastOp,         \* the operation that ran last
  calls,          \* the remote calls of the operation that ran last
  fired,          \* onDidChangeModified events of the operation that ran last
  unloaded,       \* a loaded unit has been removed from the tree at some time
  nOps,
  nPush,
  loading,        \* load commands past the hasContainer check, awaiting the lists
  arg,            \* the argument handed to a function of gtmClient.ts
  ret             \* what the function applied last returned

vars == <<remote, deleted, root, containers, variableNames, files,
          modifiedFiles, pc, push, result, lastOp, calls, fired, unloaded,
          nOps, nPush, loading, arg, ret>>

Op(op, uri, name, code) == [op |-> op, uri |-> uri, name |-> name, code |-> code]

NoPush ==
  [groups |-> <<>>, tIdx |-> 0, iPos |-> 0, success |-> 0, failed |-> 0,
   errors |-> <<>>, inflight |-> <<>>, before |-> <<>>]

NoResult == [success |-> 0, failed |-> 0, errors |-> <<>>]

Arg(templateData, item) == [templateData |-> templateData, item |-> item]
NoArg == Arg(<<>>, GtmTemplate("", <<>>, 0, <<>>))

Ret(fn, templateData, sections, item, sectionName, code) ==
  [fn |-> fn, templateData |-> templateData, sections |-> sections,
   item |-> item, sectionName |-> sectionName, code |-> code]
NoRet == Ret("", <<>>, <<>>, GtmTemplate("", <<>>, 0, <<>>), "", <<>>)

Init ==
  /\ remote = InitialRemote
  /\ deleted = {}
  /\ root = {}
  /\ containers = {}
  /\ variableNames = << >>
  /\ files = << >>
  /\ modifiedFiles = <<>>
  /\ pc = "idle"
  /\ push = NoPush
  /\ result = NoResult
  /\ lastOp = Op("init", NoUri, NoName, <<>>)
  /\ calls = <<>>
  /\ fired = 0
  /\ unloaded = FALSE
  /\ nOps = 0
  /\ nPush = 0
  /\ loading = 0
  /\ arg = NoArg
  /\ ret = NoRet

\* the tree
Folders == {"tags", "variables", "templates"}

\* the kind of the entry an address resolves to, "none" when it resolves to
\* nothing
lookup(uri) ==
  IF uri \in DOMAIN files THEN "file"
  ELSE IF uri.unit = "" THEN "directory"
  ELSE IF uri.unit \notin root \/ uri.name # <<>> THEN "none"
  ELSE IF uri.dir = <<>> /\ uri.folder \in Folders \cup {""} THEN "directory"
  ELSE IF /\ uri.folder = "templates"
          /\ \E w \in DOMAIN files : /\ w.unit = uri.unit
                                      /\ w.folder = "templates"
                                      /\ w.dir = uri.dir
       THEN "directory"
  ELSE "none"

lookupAsFile(uri) == IF lookup(uri) = "file" THEN "ok" ELSE "FileNotFound"

lookupAsDirectory(uri) ==
  IF lookup(uri) = "directory" THEN "ok" ELSE "FileNotADirectory"

stat(uri) == IF lookup(uri) = "none" THEN "FileNotFound" ELSE "ok"

readDirectory(uri) == lookupAsDirectory(uri)

readFile(uri) == lookupAsFile(uri)
hasContainer(containerName, workspaceName) ==
  (containerName \o " (" \o workspaceName \o ")") \in containers
isModified(uri) == ModHas(modifiedFiles, uri)
hasModifiedFiles == Len(modifiedFiles) > 0

extractItemCode(item, itemType, sectionName) ==
  IF itemType = "template-section" /\ sectionName # ""
  THEN LET sections == parseTemplateSections(item.templateData)
           i == SectionIndex(sections, sectionName)
       IN IF i = 0 THEN <<>> ELSE sections[i].content
  ELSE extractCode(item)

Call(op, path, body, ok) == [op |-> op, path |-> path, body |-> body, ok |-> ok]
NoBody == GtmTemplate("", <<>>, 0, <<>>)

Idle == pc = "idle"
\* a command other than push: it starts when no push is running; the locals and
\* the return value of the last push are gone by then
UserOp ==
  /\ Idle
  /\ nOps < MaxOps
  /\ nOps' = nOps + 1
  /\ push' = NoPush
  /\ result' = NoResult
  /\ UNCHANGED <<pc, nPush, loading, arg, ret>>

\* a command that removes no unit
Keeps == UNCHANGED unloaded

(***************************************************************************)
(* gtmsense.loadContainer: hasContainer check, then addContainer.          *)
(***************************************************************************)
ListOf(paths) ==
  LET present == SelectSeq(paths, LAMBDA p : p \in DOMAIN remote)
  IN [i \in 1..Len(present) |-> remote[present[i]]]

RECURSIVE AddItemFiles(_, _, _, _, _)
AddItemFiles(f, key, folder, itemType, items) ==
  IF items = <<>> THEN f
  ELSE LET item == Head(items)
           code == extractCode(item)
           next == IF code # <<>>
                   THEN Put(f, Uri(key, folder, <<>>, ItemFileName(item.name)),
                            FileEntry(code, item, itemType, ""))
                   ELSE f
       IN AddItemFiles(next, key, folder, itemType, Tail(items))

RECURSIVE AddSectionFiles(_, _, _, _)
AddSectionFiles(f, key, template, sections) ==
  IF sections = <<>> THEN f
  ELSE LET section == Head(sections)
       IN AddSectionFiles(
            Put(f, Uri(key, "templates", sanitizeFileName(template.name),
                       <<section.name, section.extension>>),
                FileEntry(section.content, template, "template-section",
                          section.name)),
            key, template, Tail(sections))

RECURSIVE AddTemplateFolders(_, _, _)
AddTemplateFolders(f, key, templates) ==
  IF templates = <<>> THEN f
  ELSE AddTemplateFolders(
         AddSectionFiles(
           [u \in {a \in DOMAIN f :
                     ~(a.unit = key /\ a.folder = "templates"
                       /\ a.dir = sanitizeFileName(Head(templates).name))}
              |-> f[u]],
           key, Head(templates),
           parseTemplateSections(Head(templates).templateData)),
         key, Tail(templates))

addContainer(containerName, workspaceName) ==
  LET containerKey == containerName \o " (" \o workspaceName \o ")"
      tags == ListOf(TagPaths)
      variables == ListOf(VariablePaths)
      templates == ListOf(TemplatePaths)
      others == [u \in {a \in DOMAIN files : a.unit # containerKey} |-> files[u]]
      withTags == AddItemFiles(others, containerKey, "tags", "tag", tags)
      withVars == AddItemFiles(withTags, containerKey, "variables", "variable",
                               variables)
  IN /\ files' = AddTemplateFolders(withVars, containerKey, templates)
     /\ variableNames' = Put(variableNames, containerKey,
                             [i \in 1..Len(variables) |-> variables[i].name])
     /\ root' = root \cup {containerKey}
     /\ containers' = containers \cup {containerKey}

\* the command without its hasContainer check
loadContainerUnchecked(containerName, workspaceName, ok) ==
  /\ calls' = <<Call("list", "", NoBody, ok)>>
  /\ IF ok THEN addContainer(containerName, workspaceName)
     ELSE UNCHANGED <<files, variableNames, root, containers>>

\* the command once the user has picked the container and the workspace
loadContainer(containerName, workspaceName, ok) ==
  IF hasContainer(containerName, workspaceName)
  THEN /\ calls' = <<>>
       /\ UNCHANGED <<files, variableNames, root, containers>>
  ELSE /\ calls' = <<Call("list", "", NoBody, ok)>>
       /\ IF ok THEN addContainer(containerName, workspaceName)
          ELSE UNCHANGED <<files, variableNames, root, containers>>

LoadContainer ==
  /\ UserOp
  /\ Keeps
  /\ \E ok \in BOOLEAN : loadContainer(ContainerName, WorkspaceName, ok)
  /\ lastOp' = Op("load", NoUri, NoName, <<>>)
  /\ fired' = 0
  /\ UNCHANGED <<remote, deleted, modifiedFiles>>

(***************************************************************************)
(* writeFile                                                               *)
(***************************************************************************)
writeFileDropsRename(uri, content) ==
  LET entry == files[uri]
      originalCode == extractItemCode(entry.gtmItem, entry.itemType,
                                      entry.sectionName)
  IN /\ files' = [files EXCEPT ![uri].data = content]
     /\ modifiedFiles' =
          IF content # originalCode
          THEN ModSet(modifiedFiles,
                      ModifiedFile(uri, uri.name, entry.itemType, entry.gtmItem,
                                   content, NoName, entry.sectionName))
          ELSE ModDelete(modifiedFiles, uri)
     /\ fired' = 1
     /\ calls' = <<>>

\* the new content is sent to the service at once
writeFileThrough(uri, content) ==
  LET entry == files[uri]
  IN /\ files' = [files EXCEPT ![uri].data = content]
     /\ modifiedFiles' = ModDelete(modifiedFiles, uri)
     /\ fired' = 1
     /\ calls' = <<Call("update", entry.gtmItem.path, entry.gtmItem, TRUE)>>

writeFile(uri, content) ==
  LET entry == files[uri]
      newCode == content
      originalCode == extractItemCode(entry.gtmItem, entry.itemType,
                                      entry.sectionName)
      hasNameChange == ModHas(modifiedFiles, uri)
                       /\ ModGet(modifiedFiles, uri).newName # NoName
      existingNewName == IF ModHas(modifiedFiles, uri)
                         THEN ModGet(modifiedFiles, uri).newName
                         ELSE NoName
  IN /\ files' = [files EXCEPT ![uri].data = content]
     /\ modifiedFiles' =
          IF newCode # originalCode \/ hasNameChange
          THEN ModSet(modifiedFiles,
                      ModifiedFile(uri, uri.name, entry.itemType, entry.gtmItem,
                                   newCode, existingNewName, entry.sectionName))
          ELSE ModDelete(modifiedFiles, uri)
     /\ fired' = 1
     /\ calls' = <<>>

WriteFile ==
  /\ UserOp
  /\ Keeps
  /\ \E uri \in DOMAIN files, content \in Contents \cup SectionContents :
       /\ content \in SectionContents => files[uri].itemType = "template-section"
       /\ writeFile(uri, content)
       /\ lastOp' = Op("write", uri, NoName, content)
  /\ UNCHANGED <<remote, deleted, root, containers, variableNames>>

(***************************************************************************)
(* renameFile, behind gtmsense.renameItem                                  *)
(***************************************************************************)
GetNames(vn, containerName) ==
  IF containerName \in DOMAIN vn THEN vn[containerName] ELSE <<>>

\* names[names.indexOf(from)] = to, when from is in names
ReplaceFirst(names, from, to) ==
  IF \E i \in 1..Len(names) : names[i] = from
  THEN LET idx == CHOOSE i \in 1..Len(names) :
                    /\ names[i] = from
                    /\ \A j \in 1..(i - 1) : names[j] # from
       IN [names EXCEPT ![idx] = to]
  ELSE names

\* the pending change of the old address is left in place
renameFileKeepsPending(uri, newName) ==
  LET entry == files[uri]
      newUri == Uri(uri.unit, uri.folder, <<>>, ItemFileName(newName))
  IN /\ files' = Put(Drop(files, uri), newUri,
                     FileEntry(entry.data, entry.gtmItem, entry.itemType, ""))
     /\ variableNames' =
          IF entry.itemType = "variable"
          THEN Put(variableNames, uri.unit,
                   ReplaceFirst(GetNames(variableNames, uri.unit),
                                entry.gtmItem.name, newName))
          ELSE variableNames
     /\ modifiedFiles' =
          ModSet(modifiedFiles,
                 ModifiedFile(newUri, ItemFileName(newName), entry.itemType,
                              entry.gtmItem,
                              IF ModHas(modifiedFiles, uri)
                              THEN ModGet(modifiedFiles, uri).newCode
                              ELSE entry.data,
                              newName, ""))
     /\ fired' = 1

renameFile(uri, newName) ==
  LET entry == files[uri]
      containerName == uri.unit
      existing == ModHas(modifiedFiles, uri)
      currentCode == entry.data
      newFileName == ItemFileName(newName)
      newUri == Uri(containerName, uri.folder, <<>>, newFileName)
      newEntry == FileEntry(entry.data, entry.gtmItem, entry.itemType, "")
  IN /\ files' = Put(Drop(files, uri), newUri, newEntry)
     /\ variableNames' =
          IF entry.itemType = "variable"
          THEN Put(variableNames, containerName,
                   ReplaceFirst(GetNames(variableNames, containerName),
                                entry.gtmItem.name, newName))
          ELSE variableNames
     /\ modifiedFiles' =
          ModSet(ModDelete(modifiedFiles, uri),
                 ModifiedFile(newUri, newFileName, entry.itemType, entry.gtmItem,
                              IF existing THEN ModGet(modifiedFiles, uri).newCode
                              ELSE currentCode,
                              newName, ""))
     /\ fired' = 1

RenameItem ==
  /\ UserOp
  /\ Keeps
  /\ \E uri \in DOMAIN files, newName \in RenameNames :
       /\ uri.folder \in {"tags", "variables"}
       /\ trim(newName) # <<>>
       /\ newName # files[uri].gtmItem.name
       /\ renameFile(uri, newName)
       /\ lastOp' = Op("rename", uri, newName, <<>>)
  /\ calls' = <<>>
  /\ UNCHANGED <<remote, deleted, root, containers>>

(***************************************************************************)
(* discardChanges and restoreOriginalName                                  *)
(***************************************************************************)
Tree(f, vn, m, thrown) == [f |-> f, vn |-> vn, m |-> m, thrown |-> thrown]

restoreOriginalNameKeepsPending(t, uri, modified) ==
  LET current == Uri(uri.unit, uri.folder, <<>>, modified.fileName)
      originalUri == Uri(uri.unit, uri.folder, <<>>,
                         ItemFileName(modified.gtmItem.name))
  IN IF current \notin DOMAIN t.f THEN t
     ELSE [t EXCEPT !.f = Put(Drop(t.f, current), originalUri, t.f[current])]

restoreOriginalName(t, uri, modified) ==
  LET containerName == uri.unit
      current == Uri(containerName, uri.folder, <<>>, modified.fileName)
      originalName == modified.gtmItem.name
      originalUri == Uri(containerName, uri.folder, <<>>,
                         ItemFileName(originalName))
  IN IF containerName \notin root \/ uri.folder \notin {"tags", "variables", "templates"}
        \/ current \notin DOMAIN t.f
     THEN t
     ELSE Tree(Put(Drop(t.f, current), originalUri, t.f[current]),
               IF modified.itemType = "variable" /\ modified.newName # NoName
               THEN Put(t.vn, containerName,
                        ReplaceFirst(GetNames(t.vn, containerName),
                                     modified.newName, originalName))
               ELSE t.vn,
               ModDelete(t.m, uri),
               t.thrown)

\* the body run for one pending file: restore the buffer, then the name
discardOne(t, modified, single) ==
  IF modified.uri \notin DOMAIN t.f
  THEN [t EXCEPT !.thrown = TRUE]
  ELSE LET entry == t.f[modified.uri]
           originalCode == extractItemCode(entry.gtmItem, entry.itemType,
                                           entry.sectionName)
           reset == [t EXCEPT !.f[modified.uri].data = originalCode]
       IN IF modified.newName # NoName
          THEN restoreOriginalName(reset, modified.uri, modified)
          ELSE IF single
               THEN [reset EXCEPT !.m = ModDelete(t.m, modified.uri)]
               ELSE reset

RECURSIVE discardEach(_, _)
discardEach(t, pending) ==
  IF pending = <<>> \/ t.thrown THEN t
  ELSE discardEach(discardOne(t, Head(pending), FALSE), Tail(pending))

discardChanges(uri, all) ==
  LET start == Tree(files, variableNames, modifiedFiles, FALSE)
      done == IF all
              THEN LET each == discardEach(start, modifiedFiles)
                   IN IF each.thrown THEN each ELSE [each EXCEPT !.m = <<>>]
              ELSE IF ModHas(modifiedFiles, uri)
                   THEN discardOne(start, ModGet(modifiedFiles, uri), TRUE)
                   ELSE start
  IN /\ files' = done.f
     /\ variableNames' = done.vn
     /\ modifiedFiles' = done.m
     /\ fired' = IF done.thrown THEN 0 ELSE 1

DiscardItemChanges ==
  /\ UserOp
  /\ Keeps
  /\ \E i \in 1..Len(modifiedFiles) :
       /\ discardChanges(modifiedFiles[i].uri, FALSE)
       /\ lastOp' = Op("discard", modifiedFiles[i].uri, modifiedFiles[i].newName,
                      modifiedFiles[i].newCode)
  /\ calls' = <<>>
  /\ UNCHANGED <<remote, deleted, root, containers>>

DiscardChanges ==
  /\ UserOp
  /\ Keeps
  /\ hasModifiedFiles
  /\ discardChanges(NoUri, TRUE)
  /\ lastOp' = Op("discardAll", NoUri, NoName, <<>>)
  /\ calls' = <<>>
  /\ UNCHANGED <<remote, deleted, root, containers>>

(***************************************************************************)
(* gtmsense.createTag / createVariable: remote create, then addFileEntry    *)
(***************************************************************************)
FreePath(paths) ==
  LET free == SelectSeq(paths, LAMBDA p : p \notin DOMAIN remote /\ p \notin deleted)
  IN IF free = <<>> THEN "" ELSE Head(free)

addFileEntry(containerName, folder, item, itemType) ==
  /\ files' = Put(files,
                  Uri(containerName, folder, <<>>, ItemFileName(item.name)),
                  FileEntry(extractCode(item), item, itemType, ""))
  /\ variableNames' =
       IF itemType = "variable"
       THEN Put(variableNames, containerName,
                Append(GetNames(variableNames, containerName), item.name))
       ELSE variableNames

createItem(itemType, name, ok) ==
  LET path == FreePath(IF itemType = "tag" THEN TagPaths ELSE VariablePaths)
      item == IF itemType = "tag"
              THEN GtmTag(path, name, 1, DefaultTagCode)
              ELSE GtmVariable(path, name, 1, DefaultVariableCode)
  IN /\ path # ""
     /\ ok => NameFree(remote, itemType, name, path)
     /\ calls' = <<Call("create", path, item, ok)>>
     /\ lastOp' = Op("create", NoUri, name, <<>>)
     /\ IF ok
        THEN /\ remote' = Put(remote, path, item)
             /\ addFileEntry(ContainerKey,
                             IF itemType = "tag" THEN "tags" ELSE "variables",
                             item, itemType)
        ELSE UNCHANGED <<remote, files, variableNames>>

CreateItem ==
  /\ UserOp
  /\ Keeps
  /\ ContainerKey \in containers
  /\ \E itemType \in {"tag", "variable"}, name \in CreateNames, ok \in BOOLEAN :
       createItem(itemType, name, ok)
  /\ fired' = 0
  /\ UNCHANGED <<deleted, root, containers, modifiedFiles>>

(***************************************************************************)
(* deleteFile, behind gtmsense.deleteItem                                  *)
(***************************************************************************)
\* the node is detached before the answer of the service is known
deleteFileDetachFirst(uri, ok) ==
  LET entry == files[uri]
      containerName == uri.unit
      path == entry.gtmItem.path
  IN /\ calls' = <<Call("delete", path, NoBody, ok)>>
     /\ remote' = IF ok THEN Drop(remote, path) ELSE remote
     /\ deleted' = IF ok THEN deleted \cup {path} ELSE deleted
     /\ files' = Drop(files, Uri(containerName, uri.folder, <<>>, uri.name))
     /\ modifiedFiles' = ModDelete(modifiedFiles, uri)
     /\ variableNames' =
          IF entry.itemType = "variable"
          THEN Put(variableNames, containerName,
                   SelectSeq(GetNames(variableNames, containerName),
                             LAMBDA n : n # entry.gtmItem.name))
          ELSE variableNames
     /\ fired' = 1

deleteFile(uri, ok) ==
  LET entry == files[uri]
      containerName == uri.unit
      path == entry.gtmItem.path
  IN /\ calls' = <<Call("delete", path, NoBody, ok)>>
     /\ IF ok
        THEN /\ remote' = Drop(remote, path)
             /\ deleted' = deleted \cup {path}
             /\ files' = Drop(files, Uri(containerName, uri.folder, <<>>, uri.name))
             /\ modifiedFiles' = ModDelete(modifiedFiles, uri)
             /\ variableNames' =
                  IF entry.itemType = "variable"
                  THEN Put(variableNames, containerName,
                           SelectSeq(GetNames(variableNames, containerName),
                                     LAMBDA n : n # entry.gtmItem.name))
                  ELSE variableNames
             /\ fired' = 1
        ELSE /\ fired' = 0
             /\ UNCHANGED <<remote, deleted, files, modifiedFiles, variableNames>>

DeleteItem ==
  /\ UserOp
  /\ Keeps
  /\ \E uri \in DOMAIN files, ok \in BOOLEAN :
       /\ uri.folder \in {"tags", "variables"}
       /\ ok => files[uri].gtmItem.path \in DOMAIN remote
       /\ deleteFile(uri, ok)
       /\ lastOp' = Op("delete", uri, NoName, <<>>)
  /\ UNCHANGED <<root, containers>>

(***************************************************************************)
(* removeContainer, behind gtmsense.unloadContainer and gtmsense.signOut   *)
(***************************************************************************)
removeContainer(containerName) ==
  /\ root' = root \ {containerName}
  /\ containers' = containers \ {containerName}
  /\ variableNames' = [k \in DOMAIN variableNames \ {containerName} |->
                         variableNames[k]]
  /\ files' = [u \in {a \in DOMAIN files : a.unit # containerName} |-> files[u]]
  /\ unloaded' = (unloaded \/ containerName \in root)

\* the quick pick offers the loaded units by name; the label is passed on
UnloadContainer ==
  /\ UserOp
  /\ containers # {}
  /\ removeContainer(ContainerName)
  /\ lastOp' = Op("unload", NoUri, NoName, <<>>)
  /\ calls' = <<>>
  /\ fired' = 0
  /\ UNCHANGED <<remote, deleted, modifiedFiles>>

\* one unit at most is loaded, so the loop over getContainers() runs once
SignOut ==
  /\ UserOp
  /\ removeContainer(ContainerKey)
  /\ lastOp' = Op("signOut", NoUri, NoName, <<>>)
  /\ calls' = <<>>
  /\ fired' = 0
  /\ UNCHANGED <<remote, deleted, modifiedFiles>>

(***************************************************************************)
(* The calls of the FileSystemProvider contract made by the editor: stat,  *)
(* readDirectory, readFile, createDirectory, delete, rename.  lastOp keeps  *)
(* the address and what the call returned or threw.                        *)
(***************************************************************************)
FsAddresses ==
  {Uri(ContainerKey, "", <<>>, <<>>),
   Uri(ContainerKey, "variables", <<>>, <<>>),
   Uri(ContainerKey, "variables", <<>>, <<"a", ".js">>)}

\* a call that changes nothing
FsCall(op, uri, outcome) ==
  /\ lastOp' = Op(op, uri, NoName, <<outcome>>)
  /\ calls' = <<>>
  /\ fired' = 0
  /\ UNCHANGED <<remote, deleted, root, containers, variableNames, files,
                 modifiedFiles>>

Stat ==
  /\ UserOp
  /\ Keeps
  /\ \E uri \in FsAddresses : FsCall("stat", uri, stat(uri))

ReadDirectory ==
  /\ UserOp
  /\ Keeps
  /\ \E uri \in FsAddresses : FsCall("readDirectory", uri, readDirectory(uri))

ReadFile ==
  /\ UserOp
  /\ Keeps
  /\ \E uri \in FsAddresses : FsCall("readFile", uri, readFile(uri))

createDirectory(uri) == FsCall("createDirectory", uri, "NoPermissions")

\* the generic delete detaches the node
deleteDetaches(uri) ==
  /\ lastOp' = Op("delete()", uri, NoName, <<"ok">>)
  /\ calls' = <<>>
  /\ fired' = 0
  /\ files' = [u \in DOMAIN files \ {uri} |-> files[u]]
  /\ UNCHANGED <<remote, deleted, root, containers, variableNames, modifiedFiles>>

delete(uri) == FsCall("delete()", uri, "NoPermissions")

rename(uri) == FsCall("rename()", uri, "NoPermissions")

CreateDirectory ==
  /\ UserOp
  /\ Keeps
  /\ \E uri \in FsAddresses : createDirectory(uri)

Delete ==
  /\ UserOp
  /\ Keeps
  /\ \E uri \in FsAddresses : delete(uri)

Rename ==
  /\ UserOp
  /\ Keeps
  /\ \E uri \in FsAddresses : rename(uri)

(***************************************************************************)
(* pushChanges.  It runs up to its next await in one step: PushChanges     *)
(* from the entry to the first remote call, PushResume from the response   *)
(* of a call to the next call or to the return.                            *)
(***************************************************************************)
GroupIndex(groups, templatePath) ==
  IF \E i \in 1..Len(groups) : groups[i].templatePath = templatePath
  THEN CHOOSE i \in 1..Len(groups) : groups[i].templatePath = templatePath
  ELSE 0

\* sections.set(sectionName, newCode) on a Map in insertion order
SectionSet(sections, sectionName, newCode) ==
  IF \E i \in 1..Len(sections) : sections[i].name = sectionName
  THEN [i \in 1..Len(sections) |->
          IF sections[i].name = sectionName
          THEN [name |-> sectionName, code |-> newCode]
          ELSE sections[i]]
  ELSE Append(sections, [name |-> sectionName, code |-> newCode])

\* every pending section opens a group of its own
RECURSIVE templateChangesPerSection(_, _)
templateChangesPerSection(pending, groups) ==
  IF pending = <<>> THEN groups
  ELSE LET modified == Head(pending)
       IN IF modified.itemType = "template-section" /\ modified.sectionName # ""
          THEN templateChangesPerSection(Tail(pending),
                 Append(groups,
                        [templatePath |-> modified.gtmItem.path,
                         template |-> modified.gtmItem,
                         sections |-> <<[name |-> modified.sectionName,
                                         code |-> modified.newCode]>>]))
          ELSE templateChangesPerSection(Tail(pending), groups)

RECURSIVE templateChanges(_, _)
templateChanges(pending, groups) ==
  IF pending = <<>> THEN groups
  ELSE LET modified == Head(pending)
           templatePath == modified.gtmItem.path
           withGroup == IF GroupIndex(groups, templatePath) = 0
                        THEN Append(groups, [templatePath |-> templatePath,
                                             template |-> modified.gtmItem,
                                             sections |-> <<>>])
                        ELSE groups
           g == GroupIndex(withGroup, templatePath)
       IN IF modified.itemType = "template-section" /\ modified.sectionName # ""
          THEN templateChanges(Tail(pending),
                 [withGroup EXCEPT ![g].sections =
                    SectionSet(@, modified.sectionName, modified.newCode)])
          ELSE templateChanges(Tail(pending), groups)

RECURSIVE updatedTemplateData(_, _)
updatedTemplateData(templateData, sections) ==
  IF sections = <<>> THEN templateData
  ELSE updatedTemplateData(
         updateTemplateSection(templateData, Head(sections).name,
                               Head(sections).code),
         Tail(sections))

\* the body of the PUT for one template group
templateBody(group) ==
  [group.template EXCEPT
     !.templateData = updatedTemplateData(group.template.templateData,
                                          group.sections)]

itemBodyOldName(modified) == updateCode(modified.gtmItem, modified.newCode)

\* the body of the PUT for one tag or variable
itemBody(modified) ==
  LET updatedItem == updateCode(modified.gtmItem, modified.newCode)
  IN IF modified.newName # NoName
     THEN [updatedItem EXCEPT !.name = modified.newName]
     ELSE updatedItem

\* the service answers a PUT with the stored entity: the body it was sent
\* under a fresh fingerprint
Respond(path, body) ==
  [body EXCEPT !.fingerprint = remote[path].fingerprint + 1]

Inflight(ok, pushedItem, modified) ==
  [ok |-> ok, pushedItem |-> pushedItem, modified |-> modified]

NoModified == ModifiedFile(NoUri, <<>>, "", NoBody, <<>>, NoName, "")

\* the index of the next entry of the second loop, 0 at its end
nextItem(pending, iPos) ==
  IF \E j \in (iPos + 1)..Len(pending) : pending[j].itemType # "template-section"
  THEN CHOOSE j \in (iPos + 1)..Len(pending) :
         /\ pending[j].itemType # "template-section"
         /\ \A k \in (iPos + 1)..(j - 1) : pending[k].itemType = "template-section"
  ELSE 0

onFailureAbort(p, fileName, errorMessage) ==
  [p EXCEPT !.errors = Append(@, [fileName |-> fileName, error |-> errorMessage]),
            !.failed = @ + 1,
            !.tIdx = Len(p.groups),
            !.iPos = Len(p.before)]

onFailureUnlisted(p, fileName, errorMessage) == [p EXCEPT !.failed = @ + 1]

\* catch (error): record the error and go on
onFailure(p, fileName, errorMessage) ==
  [p EXCEPT !.errors = Append(@, [fileName |-> fileName, error |-> errorMessage]),
            !.failed = @ + 1]

onSuccess(p) == [p EXCEPT !.success = @ + 1]

clearAlways(failed, pending) == <<>>

clearNever(failed, pending) == pending

\* if (failed === 0) this.modifiedFiles.clear()
clearOnSuccess(failed, pending) == IF failed = 0 THEN <<>> ELSE pending

Continue(p, f, c) ==
  IF p.tIdx < Len(p.groups)
  THEN LET group == p.groups[p.tIdx + 1]
           body == templateBody(group)
       IN \E ok \in BOOLEAN :
            /\ ok => group.templatePath \in DOMAIN remote
            /\ remote' = IF ok
                         THEN Put(remote, group.templatePath,
                                  Respond(group.templatePath, body))
                         ELSE remote
            /\ calls' = Append(c, Call("updateTemplate", group.templatePath,
                                       body, ok))
            /\ push' = [p EXCEPT !.tIdx = @ + 1,
                          !.inflight =
                            <<Inflight(ok,
                                       IF ok THEN Respond(group.templatePath, body)
                                       ELSE NoBody,
                                       NoModified)>>]
            /\ pc' = "awaitT"
            /\ files' = f
            /\ UNCHANGED <<modifiedFiles, result, fired>>
  ELSE IF nextItem(modifiedFiles, p.iPos) # 0
  THEN LET j == nextItem(modifiedFiles, p.iPos)
           modified == modifiedFiles[j]
           path == modified.gtmItem.path
           body == itemBody(modified)
       IN \E ok \in BOOLEAN :
            /\ ok => /\ path \in DOMAIN remote
                     /\ NameFree(remote, body.kind, body.name, path)
            /\ remote' = IF ok THEN Put(remote, path, Respond(path, body))
                         ELSE remote
            /\ calls' = Append(c, Call(IF modified.itemType = "tag"
                                       THEN "updateTag" ELSE "updateVariable",
                                       path, body, ok))
            /\ push' = [p EXCEPT !.iPos = j,
                          !.inflight =
                            <<Inflight(ok,
                                       IF ok THEN Respond(path, body) ELSE NoBody,
                                       modified)>>]
            /\ pc' = "awaitI"
            /\ files' = f
            /\ UNCHANGED <<modifiedFiles, result, fired>>
  ELSE /\ modifiedFiles' = clearOnSuccess(p.failed, modifiedFiles)
       /\ fired' = IF p.failed = 0 THEN 1 ELSE 0
       /\ result' = [success |-> p.success, failed |-> p.failed,
                     errors |-> p.errors]
       /\ push' = [p EXCEPT !.inflight = <<>>]
       /\ pc' = "idle"
       /\ files' = f
       /\ calls' = c
       /\ UNCHANGED remote

PushChanges ==
  /\ Idle
  /\ nPush < MaxPushes
  /\ nPush' = nPush + 1
  /\ lastOp' = Op("push", NoUri, NoName, <<>>)
  /\ Continue([NoPush EXCEPT !.groups = templateChanges(modifiedFiles, <<>>),
                             !.before = modifiedFiles],
              files, <<>>)
  /\ UNCHANGED <<deleted, root, containers, variableNames, unloaded, nOps,
                 loading, arg, ret>>

\* entry.gtmItem = pushedItem for the pending sections of the template
RECURSIVE updateSectionEntries(_, _, _, _)
updateSectionEntries(t, pending, templatePath, pushedItem) ==
  IF pending = <<>> \/ t.thrown THEN t
  ELSE LET mod == Head(pending)
       IN IF mod.itemType = "template-section" /\ mod.gtmItem.path = templatePath
          THEN IF mod.uri \in DOMAIN t.f
               THEN updateSectionEntries(
                      [t EXCEPT !.f[mod.uri].gtmItem = pushedItem],
                      Tail(pending), templatePath, pushedItem)
               ELSE [t EXCEPT !.thrown = TRUE]
          ELSE updateSectionEntries(t, Tail(pending), templatePath, pushedItem)

\* what runs when the awaited call returns or throws
Handled(p, f) == [p |-> p, f |-> f]

handleTemplate(p, f, pending) ==
  LET group == p.groups[p.tIdx]
      r == p.inflight[1]
      t == updateSectionEntries(Tree(f, << >>, <<>>, FALSE), pending,
                                group.templatePath, r.pushedItem)
  IN IF ~r.ok THEN Handled(onFailure(p, group.template.name, "GTM API error"), f)
     ELSE IF t.thrown
          THEN Handled(onFailure(p, group.template.name, "FileNotFound"), t.f)
          ELSE Handled(onSuccess(p), t.f)

handleItem(p, f) ==
  LET r == p.inflight[1]
      modified == r.modified
  IN IF ~r.ok THEN Handled(onFailure(p, modified.fileName, "GTM API error"), f)
     ELSE IF modified.uri \notin DOMAIN f
          THEN Handled(onFailure(p, modified.fileName, "FileNotFound"), f)
          ELSE Handled(onSuccess(p),
                       [f EXCEPT ![modified.uri].gtmItem = r.pushedItem])

PushResume ==
  /\ pc # "idle"
  /\ LET h == IF pc = "awaitT" THEN handleTemplate(push, files, modifiedFiles)
              ELSE handleItem(push, files)
     IN Continue(h.p, h.f, calls)
  /\ UNCHANGED <<deleted, root, containers, variableNames, lastOp, unloaded,
                 nOps, nPush, loading, arg, ret>>

Next ==
  \/ LoadContainer
  \/ WriteFile
  \/ RenameItem
  \/ DiscardItemChanges
  \/ DiscardChanges
  \/ CreateItem
  \/ DeleteItem
  \/ UnloadContainer
  \/ SignOut
  \/ Stat
  \/ ReadDirectory
  \/ ReadFile
  \/ CreateDirectory
  \/ Delete
  \/ Rename
  \/ PushChanges
  \/ PushResume

Spec == Init /\ [][Next]_vars

(***************************************************************************)
(* File naming: gtmsense.createVariable with any name of up to MaxNameLen   *)
(* tokens typed into its input box.                                        *)
(***************************************************************************)
NameTokens == {"Test", "Var", " ", "/"}

TypedNames ==
  UNION {[1..n -> NameTokens] : n \in 1..MaxNameLen}

CreateNamed ==
  /\ UserOp
  /\ Keeps
  /\ ContainerKey \in containers
  /\ \E name \in TypedNames, ok \in BOOLEAN : createItem("variable", name, ok)
  /\ fired' = 0
  /\ UNCHANGED <<deleted, root, containers, modifiedFiles>>

NextNaming ==
  \/ LoadContainer
  \/ CreateNamed

SpecNaming == Init /\ [][NextNaming]_vars

(***************************************************************************)
(* The functions of gtmClient.ts applied to documents of up to MaxDocLen    *)
(* tokens and to entities of every parameter shape.                        *)
(***************************************************************************)
MaxDocLen == 5

DocTokens == {"___INFO___", "___TESTS___", "x", " ", "\n"}

\* a marker stands on a line of its own
WellFormed(doc) ==
  \A i \in 1..Len(doc) :
     doc[i] \in Markers =>
        /\ i = 1 \/ doc[i - 1] = "\n"
        /\ i = Len(doc) \/ doc[i + 1] = "\n"

Documents ==
  {doc \in UNION {[1..n -> DocTokens] : n \in 0..MaxDocLen} : WellFormed(doc)}

\* a Custom HTML tag, one with an empty body, a Custom JavaScript variable, a
\* tag of another type, and an entity the service returned without parameters
Items ==
  {GtmTag("tags/1", <<"g">>, 1, <<"x">>),
   GtmTag("tags/1", <<"g">>, 1, <<>>),
   GtmVariable("variables/1", <<"a">>, 1, <<"x">>),
   [GtmTag("tags/1", <<"g">>, 1, <<>>) EXCEPT
      !.parameter = <<Param("template", "trackingId", <<"x">>)>>],
   [GtmVariable("variables/1", <<"a">>, 1, <<>>) EXCEPT !.parameter = <<>>]}

Codes == {<<>>, <<"x">>, <<"z", "\n">>}

NewContents == {<<>>, <<" ", "z">>, <<"z", "\n", "___TESTS___", "\n", "z">>}

InitClient ==
  /\ remote = InitialRemote
  /\ deleted = {}
  /\ root = {}
  /\ containers = {}
  /\ variableNames = << >>
  /\ files = << >>
  /\ modifiedFiles = <<>>
  /\ pc = "idle"
  /\ push = NoPush
  /\ result = NoResult
  /\ lastOp = Op("init", NoUri, NoName, <<>>)
  /\ calls = <<>>
  /\ fired = 0
  /\ unloaded = FALSE
  /\ nOps = 0
  /\ nPush = 0
  /\ loading = 0
  /\ arg \in {Arg(doc, NoArg.item) : doc \in Documents}
              \cup {Arg(<<>>, item) : item \in Items}
  /\ ret = NoRet

Applies ==
  UNCHANGED <<remote, deleted, root, containers, variableNames, files,
              modifiedFiles, pc, push, result, lastOp, calls, fired, unloaded,
              nOps, nPush, loading, arg>>

ParseTemplateSections ==
  /\ ret' = Ret("parseTemplateSections", <<>>,
               parseTemplateSections(arg.templateData), NoRet.item, "", <<>>)
  /\ Applies

RebuildTemplate ==
  /\ ret' = Ret("rebuildTemplate",
               rebuildTemplate(parseTemplateSections(arg.templateData)),
               <<>>, NoRet.item, "", <<>>)
  /\ Applies

UpdateTemplateSection ==
  /\ \E sectionName \in SectionNames, newContent \in NewContents :
       ret' = Ret("updateTemplateSection",
                  updateTemplateSection(arg.templateData, sectionName, newContent),
                  <<>>, NoRet.item, sectionName, newContent)
  /\ Applies

ExtractCode ==
  /\ ret' = Ret("extractCode", <<>>, <<>>, NoRet.item, "", extractCode(arg.item))
  /\ Applies

UpdateCode ==
  /\ \E newCode \in Codes :
       ret' = Ret("updateCode", <<>>, <<>>, updateCode(arg.item, newCode), "",
                  newCode)
  /\ Applies

NextClient ==
  \/ ParseTemplateSections
  \/ RebuildTemplate
  \/ UpdateTemplateSection
  \/ ExtractCode
  \/ UpdateCode

SpecClient == InitClient /\ [][NextClient]_vars

(***************************************************************************)
(* Commands that run while pushChanges is suspended at an await: the host   *)
(* dispatches writeFile, the rename command and the discard command         *)
(* between two remote calls of a push.                                     *)
(***************************************************************************)
\* the second loop of pushChanges iterates the live Map: an entry deleted
\* behind the iterator moves the entries after it one place forward
Iterated(gone) ==
  [push EXCEPT !.iPos =
     Cardinality({k \in 1..push.iPos : modifiedFiles[k].uri \notin gone})]

DuringPush ==
  /\ pc # "idle"
  /\ nOps < MaxOps
  /\ nOps' = nOps + 1
  /\ UNCHANGED <<remote, deleted, root, containers, pc, result, unloaded, nPush,
                 loading, arg, ret>>

WriteDuringPush ==
  /\ DuringPush
  /\ \E uri \in DOMAIN files, content \in Contents :
       /\ writeFile(uri, content)
       /\ lastOp' = Op("write", uri, NoName, content)
       /\ push' = Iterated({u \in {uri} : ~ModHas(modifiedFiles', u)})
  /\ UNCHANGED variableNames

RenameDuringPush ==
  /\ DuringPush
  /\ \E uri \in DOMAIN files, newName \in RenameNames :
       /\ uri.folder \in {"tags", "variables"}
       /\ trim(newName) # <<>>
       /\ newName # files[uri].gtmItem.name
       /\ renameFile(uri, newName)
       /\ lastOp' = Op("rename", uri, newName, <<>>)
       /\ push' = Iterated({uri})
  /\ calls' = <<>>

DiscardDuringPush ==
  /\ DuringPush
  /\ \E i \in 1..Len(modifiedFiles) :
       /\ discardChanges(modifiedFiles[i].uri, FALSE)
       /\ lastOp' = Op("discard", modifiedFiles[i].uri, modifiedFiles[i].newName,
                      modifiedFiles[i].newCode)
       /\ push' = Iterated({u \in {modifiedFiles[i].uri} :
                              ~ModHas(modifiedFiles', u)})
  /\ calls' = <<>>

NextInterleaved ==
  \/ LoadContainer
  \/ WriteFile
  \/ RenameItem
  \/ PushChanges
  \/ PushResume
  \/ WriteDuringPush
  \/ RenameDuringPush
  \/ DiscardDuringPush


(***************************************************************************)
(* A push with no command running beside it: every remote call returns or   *)
(* fails, so the continuation of pushChanges is eventually run.            *)
(***************************************************************************)
NextPush ==
  \/ LoadContainer
  \/ WriteFile
  \/ RenameItem
  \/ PushChanges
  \/ PushResume

SpecPush == Init /\ [][NextPush]_vars /\ WF_vars(PushResume)

SpecInterleaved == Init /\ [][NextInterleaved]_vars

(***************************************************************************)
(* gtmsense.loadContainer at its await: LoadBegin runs the command up to    *)
(* the Promise.all of addContainer, LoadEnd from the list results on.       *)
(***************************************************************************)
LoadBegin ==
  /\ Idle
  /\ nOps < MaxOps
  /\ nOps' = nOps + 1
  /\ IF hasContainer(ContainerName, WorkspaceName)
     THEN /\ lastOp' = Op("load", NoUri, NoName, <<"already loaded">>)
          /\ UNCHANGED loading
     ELSE /\ lastOp' = Op("load", NoUri, NoName, <<"listing">>)
          /\ loading' = loading + 1
  /\ calls' = <<>>
  /\ fired' = 0
  /\ UNCHANGED <<remote, deleted, root, containers, variableNames, files,
                 modifiedFiles, pc, push, result, unloaded, nPush, arg, ret>>

LoadEnd ==
  /\ loading > 0
  /\ loading' = loading - 1
  /\ \E ok \in BOOLEAN :
       /\ calls' = <<Call("list", "", NoBody, ok)>>
       /\ IF ok THEN addContainer(ContainerName, WorkspaceName)
          ELSE UNCHANGED <<files, variableNames, root, containers>>
  /\ lastOp' = Op("load", NoUri, NoName, <<"listed">>)
  /\ fired' = 0
  /\ UNCHANGED <<remote, deleted, modifiedFiles, pc, push, result, unloaded,
                 nOps, nPush, arg, ret>>

NextLoads ==
  \/ LoadBegin
  \/ LoadEnd
  \/ WriteFile

SpecLoads == Init /\ [][NextLoads]_vars

(***************************************************************************)
(* gtmsense.pushChanges, the command around pushChanges: PushCommand runs   *)
(* it up to the first remote call, PushCommandEnd from the return of        *)
(* pushChanges on.  No other command runs between that return and the      *)
(* continuation of the command.                                            *)
(***************************************************************************)
Returned == lastOp.op = "push" /\ pc = "idle"

\* new Set(modifiedFiles.map(f => f.containerName)), taken before the push
affectedContainerKeys == {push.before[i].uri.unit : i \in 1..Len(push.before)}

LoadCommand ==
  /\ ~Returned
  /\ LoadContainer

WriteCommand ==
  /\ ~Returned
  /\ WriteFile

PushCommand ==
  /\ ~Returned
  /\ hasModifiedFiles
  /\ PushChanges

PushCommandEnd ==
  /\ Returned
  /\ lastOp' = Op("pushCommand", NoUri, NoName, <<>>)
  /\ IF result.failed = 0 /\ ContainerKey \in affectedContainerKeys
        /\ ContainerKey \in containers
     THEN \E ok \in BOOLEAN :
            /\ calls' = <<Call("list", "", NoBody, ok)>>
            /\ unloaded' = TRUE
            /\ IF ok
               THEN addContainer(ContainerName, WorkspaceName)
               ELSE /\ root' = root \ {ContainerKey}
                    /\ containers' = containers \ {ContainerKey}
                    /\ variableNames' =
                         [k \in DOMAIN variableNames \ {ContainerKey} |->
                            variableNames[k]]
                    /\ files' = [u \in {a \in DOMAIN files : a.unit # ContainerKey}
                                  |-> files[u]]
     ELSE /\ calls' = <<>>
          /\ UNCHANGED <<root, containers, variableNames, files, unloaded>>
  /\ fired' = 0
  /\ UNCHANGED <<remote, deleted, modifiedFiles, pc, push, result, nOps, nPush,
                 loading, arg, ret>>

NextCommand ==
  \/ LoadCommand
  \/ WriteCommand
  \/ PushCommand
  \/ PushResume
  \/ PushCommandEnd

SpecCommand == Init /\ [][NextCommand]_vars

(***************************************************************************)
(* deleteFile on the address of any file node, as gtmsense.deleteItem hands *)
(* it the address of the selected item.                                    *)
(***************************************************************************)
DeleteFile ==
  /\ UserOp
  /\ Keeps
  /\ \E uri \in DOMAIN files, ok \in BOOLEAN :
       /\ ok => files[uri].gtmItem.path \in DOMAIN remote
       /\ deleteFile(uri, ok)
       /\ lastOp' = Op("deleteFile", uri, NoName, <<>>)
  /\ UNCHANGED <<root, containers>>

NextDelete ==
  \/ LoadContainer
  \/ WriteFile
  \/ DeleteFile

SpecDelete == Init /\ [][NextDelete]_vars

(***************************************************************************)
(* Loading a workspace of any content: tags and variables with and without *)
(* code, templates with and without sections.                              *)
(***************************************************************************)
ListedNames == {<<"a">>, <<"a", "/">>, <<"a", ":">>}

ListedTags ==
  {GtmTag("tags/1", name, 1, html) : name \in {<<"a">>}, html \in {<<>>, <<"x">>}}

ListedVariables(path) ==
  {GtmVariable(path, name, 1, javascript) :
     name \in ListedNames, javascript \in {<<>>, <<"x">>}}

ListedTemplates ==
  {GtmTemplate("templates/1", <<"t">>, 1, templateData) :
     templateData \in {<<>>, <<"x", "\n">>, InitialTemplateData}}

\* the workspaces the service may hold
Workspaces ==
  {r \in UNION {[paths -> ListedTags \cup ListedVariables("variables/1")
                            \cup ListedVariables("variables/2")
                            \cup ListedTemplates] :
                  paths \in SUBSET {"tags/1", "variables/1", "variables/2",
                                    "templates/1"}} :
     /\ \A p \in DOMAIN r : r[p].path = p
     /\ \A p \in DOMAIN r : NameFree(r, r[p].kind, r[p].name, p)}

InitWorkspace ==
  /\ remote \in Workspaces
  /\ deleted = {}
  /\ root = {}
  /\ containers = {}
  /\ variableNames = << >>
  /\ files = << >>
  /\ modifiedFiles = <<>>
  /\ pc = "idle"
  /\ push = NoPush
  /\ result = NoResult
  /\ lastOp = Op("init", NoUri, NoName, <<>>)
  /\ calls = <<>>
  /\ fired = 0
  /\ unloaded = FALSE
  /\ nOps = 0
  /\ nPush = 0
  /\ loading = 0
  /\ arg = NoArg
  /\ ret = NoRet

NextWorkspace ==
  \/ LoadContainer
  \/ SignOut

SpecWorkspace == InitWorkspace /\ [][NextWorkspace]_vars
(***************************************************************************)
(* Properties.                                                             *)
(***************************************************************************)
Canonical(entry) ==
  extractItemCode(entry.gtmItem, entry.itemType, entry.sectionName)

RenameStaged(uri) ==
  isModified(uri) /\ ModGet(modifiedFiles, uri).newName # NoName

PushReturned == lastOp.op = "push" /\ pc = "idle"

SectionMods(pending) ==
  SelectSeq(pending, LAMBDA m : m.itemType = "template-section")
ItemMods(pending) ==
  SelectSeq(pending, LAMBDA m : m.itemType # "template-section")
TemplateCalls(c) == SelectSeq(c, LAMBDA k : k.op = "updateTemplate")
ItemCalls(c) == SelectSeq(c, LAMBDA k : k.op \in {"updateTag", "updateVariable"})
PendingTemplates(pending) ==
  {SectionMods(pending)[i].gtmItem.path : i \in 1..Len(SectionMods(pending))}

\* C1: between operations of load, create, write, rename, discard, delete and
\* push, a file is reported modified exactly when its buffer differs from the
\* canonical content of its entity or a rename is staged for it
C1_DirtyState ==
  (Idle /\ ~unloaded) => \A uri \in DOMAIN files :
            isModified(uri) <=>
              (files[uri].data # Canonical(files[uri]) \/ RenameStaged(uri))

\* C2: a push that returns with a failure leaves the pending changes exactly
\* as they were when it started and fires no modification-changed event
C2_FailedPushKeepsPending ==
  (PushReturned /\ result.failed > 0) =>
     /\ modifiedFiles = push.before
     /\ fired = 0

C2_Witness ==
  /\ PushReturned
  /\ result.failed > 0
  /\ result.success > 0
  /\ Len(modifiedFiles) >= 2

\* C3: a push that returns without a failure has emptied the pending changes
\* and fired the modification-changed event; a push that returns with a
\* failure has not emptied them
C3_SuccessfulPushClears ==
  PushReturned =>
     /\ result.failed = 0 =>
          /\ modifiedFiles = <<>>
          /\ fired = 1
          /\ \A uri \in DOMAIN files : ~isModified(uri)
     /\ result.failed # 0 => modifiedFiles # <<>>

C3_Witness ==
  /\ PushReturned
  /\ result.failed = 0
  /\ result.success >= 2
  /\ Len(push.before) >= 2

\* the document the claim expects for a template: the sections of the document
\* last synced with the service, the pending ones with their new content
ExpectedSections(synced, templatePath, pending) ==
  LET sections == parseTemplateSections(synced)
      mods == SectionMods(pending)
      Pending(n) == \E i \in 1..Len(mods) :
                      mods[i].gtmItem.path = templatePath /\ mods[i].sectionName = n
      NewCode(n) == mods[CHOOSE i \in 1..Len(mods) :
                           mods[i].gtmItem.path = templatePath
                           /\ mods[i].sectionName = n].newCode
  IN [i \in 1..Len(sections) |->
        IF Pending(sections[i].name)
        THEN [sections[i] EXCEPT !.content = trim(NewCode(sections[i].name))]
        ELSE sections[i]]

\* C4: a push makes one update call for each template with pending sections,
\* and the document it sends has the new content of the pending sections and
\* the last-synced content of the others
C4_TemplateGrouping ==
  [][/\ (pc' = "awaitT" /\ calls' # calls) =>
          LET call == calls'[Len(calls')]
          IN call.path \in DOMAIN remote =>
               parseTemplateSections(call.body.templateData) =
                 ExpectedSections(remote[call.path].templateData, call.path,
                                  push'.before)
     /\ (pc' = "idle" /\ lastOp'.op = "push") =>
          \A path \in PendingTemplates(push'.before) :
            Cardinality({i \in 1..Len(calls') :
                           calls'[i].op = "updateTemplate"
                           /\ calls'[i].path = path}) = 1
    ]_vars

\* C5: when a push has returned, every section file of a template whose update
\* succeeded references the entity the service returned
C5_AllSectionsRefreshed ==
  PushReturned =>
    \A i \in 1..Len(calls) :
      (calls[i].op = "updateTemplate" /\ calls[i].ok) =>
        \A uri \in DOMAIN files :
          (files[uri].itemType = "template-section"
           /\ files[uri].gtmItem.path = calls[i].path) =>
             files[uri].gtmItem = remote[calls[i].path]

\* the step of one user command
Step(op) == lastOp'.op = op /\ nOps' = nOps + 1

RenamedUri == Uri(lastOp.uri.unit, lastOp.uri.folder, <<>>, ItemFileName(lastOp.name))
OriginalUri ==
  Uri(lastOp.uri.unit, lastOp.uri.folder, <<>>,
      ItemFileName(files[RenamedUri].gtmItem.name))

\* a rename of a file with a pending code edit has just run, and the renamed
\* file is discarded now
DiscardAfterRename ==
  /\ lastOp.op = "rename"
  /\ Step("discard")
  /\ lastOp'.uri = RenamedUri
  /\ ModGet(modifiedFiles, RenamedUri).newCode # extractCode(files[RenamedUri].gtmItem)

Restored ==
  /\ OriginalUri \in DOMAIN files'
  /\ files'[OriginalUri].gtmItem = files[RenamedUri].gtmItem
  /\ files'[OriginalUri].data = extractCode(files[RenamedUri].gtmItem)
  /\ ~ModHas(modifiedFiles', RenamedUri)
  /\ ~ModHas(modifiedFiles', OriginalUri)

\* C6 as stated: rename, then discard of the renamed address, restores the file
\* under its original name with the canonical content, leaves no node under
\* the renamed name and no pending change for either address
C6_RenameThenDiscard_Stated ==
  [][DiscardAfterRename => (Restored /\ RenamedUri \notin DOMAIN files')]_vars

\* C6 as amended: the same, where no node is left under the renamed name only
\* if that name differs from the original file name, and provided no other
\* node sits at the original address
C6_RenameThenDiscard ==
  [][(DiscardAfterRename
      /\ (OriginalUri \notin DOMAIN files \/ OriginalUri = RenamedUri)) =>
        /\ Restored
        /\ RenamedUri # OriginalUri => RenamedUri \notin DOMAIN files'
    ]_vars

C6_Witness ==
  /\ lastOp.op = "discard"
  /\ lastOp.name # NoName
  /\ lastOp.uri \notin DOMAIN files
  /\ ~isModified(lastOp.uri)
  /\ \E uri \in DOMAIN files :
       /\ uri.folder = lastOp.uri.folder
       /\ uri.name = ItemFileName(files[uri].gtmItem.name)
       /\ files[uri].data = Canonical(files[uri])
       /\ files[uri].data # lastOp.code
       /\ ~isModified(uri)

\* the k-th update call for a tag or variable carries the k-th pending change
CarriesRename(call, mod) ==
  /\ call.path = mod.gtmItem.path
  /\ mod.newName # NoName =>
       /\ call.body.name = mod.newName
       /\ extractCode(call.body) = mod.newCode

\* C7: a rename makes no remote call and leaves the entity of the file as it
\* was; the push that follows sends one update per staged rename, with the new
\* name and the pending code; the entity reference of a file takes the staged
\* name only in the step that handles the successful answer to that update
C7_RenameIsStaged ==
  [][/\ Step("rename") =>
          /\ calls' = <<>>
          /\ remote' = remote
          /\ files'[Uri(lastOp'.uri.unit, lastOp'.uri.folder, <<>>,
                        ItemFileName(lastOp'.name))].gtmItem
               = files[lastOp'.uri].gtmItem
     /\ (pc # "idle" /\ pc' = "idle") =>
          /\ Len(ItemCalls(calls')) = Len(ItemMods(push'.before))
          /\ \A k \in 1..Len(ItemCalls(calls')) :
               CarriesRename(ItemCalls(calls')[k], ItemMods(push'.before)[k])
     /\ \A i \in 1..Len(modifiedFiles) :
          LET mod == modifiedFiles[i]
          IN (/\ mod.newName # NoName
              /\ mod.uri \in DOMAIN files
              /\ mod.uri \in DOMAIN files'
              /\ files[mod.uri].gtmItem.path = mod.gtmItem.path
              /\ files'[mod.uri].gtmItem.path = mod.gtmItem.path
              /\ files[mod.uri].gtmItem.name # mod.newName
              /\ files'[mod.uri].gtmItem.name = mod.newName) =>
                /\ pc = "awaitI"
                /\ push.inflight[1].ok
                /\ push.inflight[1].modified = mod
    ]_vars

C7_Witness ==
  /\ PushReturned
  /\ \E k \in 1..Len(ItemMods(push.before)) :
       LET mod == ItemMods(push.before)[k]
       IN /\ mod.newName # NoName
          /\ mod.newCode # extractCode(mod.gtmItem)
          /\ mod.gtmItem.name # mod.newName
          /\ Len(ItemCalls(calls)) >= k
          /\ ItemCalls(calls)[k].ok
          /\ mod.uri \in DOMAIN files
          /\ files[mod.uri].gtmItem.name = mod.newName

\* C8: after write(A, bytes), A has no pending change if bytes are the
\* canonical content of its entity and no rename is staged for A; otherwise A
\* has a pending change with bytes as its new content and the staged rename
\* it had before
C8_WriteEffect ==
  [][Step("write") =>
       LET uri == lastOp'.uri
           bytes == lastOp'.code
           before == IF ModHas(modifiedFiles, uri)
                     THEN ModGet(modifiedFiles, uri).newName ELSE NoName
       IN /\ files'[uri].data = bytes
          /\ IF bytes = Canonical(files[uri]) /\ before = NoName
             THEN ~ModHas(modifiedFiles', uri)
             ELSE /\ ModHas(modifiedFiles', uri)
                  /\ ModGet(modifiedFiles', uri).newCode = bytes
                  /\ ModGet(modifiedFiles', uri).newName = before
    ]_vars

C8_Witness ==
  /\ lastOp.op = "write"
  /\ RenameStaged(lastOp.uri)
  /\ ModGet(modifiedFiles, lastOp.uri).newCode = lastOp.code
  /\ lastOp.code = Canonical(files[lastOp.uri])

\* C9: when a push has returned, every template with a pending section and
\* every pending tag/variable change has had exactly one update call, whatever
\* calls failed
C9_EveryOperationAttempted ==
  PushReturned =>
    /\ Len(TemplateCalls(calls)) = Cardinality(PendingTemplates(push.before))
    /\ \A path \in PendingTemplates(push.before) :
         \E k \in 1..Len(TemplateCalls(calls)) : TemplateCalls(calls)[k].path = path
    /\ Len(ItemCalls(calls)) = Len(ItemMods(push.before))
    /\ \A k \in 1..Len(ItemCalls(calls)) :
         ItemCalls(calls)[k].path = ItemMods(push.before)[k].gtmItem.path
    /\ Len(calls) = Len(TemplateCalls(calls)) + Len(ItemCalls(calls))

C9_Witness ==
  /\ PushReturned
  /\ Len(calls) >= 2
  /\ ~calls[1].ok
  /\ calls[1].op = "updateTemplate"
  /\ calls[2].op # "updateTemplate"

\* the operations of a push in the order of their calls: name and outcome
OpName(k) ==
  IF k <= Len(TemplateCalls(calls))
  THEN push.groups[k].template.name
  ELSE ItemMods(push.before)[k - Len(TemplateCalls(calls))].fileName

OpFailed(k) ==
  \/ ~calls[k].ok
  \/ IF k <= Len(TemplateCalls(calls))
     THEN \E i \in 1..Len(push.before) :
            /\ push.before[i].itemType = "template-section"
            /\ push.before[i].gtmItem.path = calls[k].path
            /\ push.before[i].uri \notin DOMAIN files
     ELSE ItemMods(push.before)[k - Len(TemplateCalls(calls))].uri \notin DOMAIN files

RECURSIVE FailedNames(_)
FailedNames(k) ==
  IF k > Len(calls) THEN <<>>
  ELSE (IF OpFailed(k) THEN <<OpName(k)>> ELSE <<>>) \o FailedNames(k + 1)

\* C10: the result of a push counts every template with a pending section and
\* every pending tag/variable change once, as a success or as a failure, and
\* lists one error per failure under the template's display name or the file
\* name
C10_ExactReport ==
  PushReturned =>
    /\ result.success + result.failed =
         Cardinality(PendingTemplates(push.before)) + Len(ItemMods(push.before))
    /\ Len(result.errors) = result.failed
    /\ [i \in 1..Len(result.errors) |-> result.errors[i].fileName] = FailedNames(1)
    /\ \A i \in 1..Len(result.errors) : result.errors[i].error # ""

C10_Witness ==
  /\ PushReturned
  /\ result.failed >= 1
  /\ result.success >= 1
  /\ \E i \in 1..Len(result.errors) : result.errors[i].fileName = <<"t">>

C12_UnloadRemovesUnit ==
  lastOp.op = "unload" =>
    /\ ContainerKey \notin containers
    /\ ~hasContainer(ContainerName, WorkspaceName)
    /\ ContainerKey \notin root
    /\ \A uri \in DOMAIN files : uri.unit # ContainerKey
    /\ ContainerKey \notin DOMAIN variableNames

\* C13: deleteFile on a tag or variable file asks the service to delete the
\* entity; if the service refuses, the tree, the pending changes and the
\* variable-name cache stay as they were; if it accepts, the address no longer
\* resolves and has no pending change
C13_DeleteEntity ==
  [][Step("delete") =>
        /\ Len(calls') = 1
        /\ calls'[1].op = "delete"
        /\ calls'[1].path = files[lastOp'.uri].gtmItem.path
        /\ IF calls'[1].ok
           THEN /\ lastOp'.uri \notin DOMAIN files'
                /\ ~ModHas(modifiedFiles', lastOp'.uri)
                /\ calls'[1].path \notin DOMAIN remote'
           ELSE UNCHANGED <<files, modifiedFiles, variableNames, remote>>
    ]_vars

C13_Witness ==
  /\ lastOp.op = "delete"
  /\ ~calls[1].ok
  /\ lastOp.uri \in DOMAIN files
  /\ isModified(lastOp.uri)

\* the address addFileEntry gives the entity created by the last command
CreatedUri(op, c) ==
  Uri(ContainerKey, IF c[1].body.kind = "tag" THEN "tags" ELSE "variables", <<>>,
      ItemFileName(op.name))

\* C14: a tag or variable put in the tree right after its creation on the
\* service has no pending change, and a push that follows with no further edit
\* sends no update for it; with nothing else pending that push makes no call
\* and returns success = 0 and failed = 0
C14_CreateThenPush ==
  [][/\ (Step("create") /\ calls'[1].ok) =>
          /\ CreatedUri(lastOp', calls') \in DOMAIN files'
          /\ ~ModHas(modifiedFiles', CreatedUri(lastOp', calls'))
     /\ (lastOp.op = "create" /\ calls[1].ok /\ lastOp'.op = "push") =>
          /\ \A i \in 1..Len(calls') : calls'[i].path # calls[1].path
          /\ (modifiedFiles = <<>> /\ pc' = "idle") =>
                (calls' = <<>> /\ result'.success = 0 /\ result'.failed = 0)
    ]_vars

\* the display name with every illegal character replaced by "_", cut down to
\* the part between its first and its last character that is not whitespace
Replaced(name) ==
  [i \in 1..Len(name) |-> IF name[i] \in IllegalChars THEN "_" ELSE name[i]]

Inked(name) == {i \in 1..Len(name) : name[i] \notin Whitespace}

ExpectedFileName(name) ==
  (IF Inked(name) = {} THEN <<>>
   ELSE SubSeq(Replaced(name),
               CHOOSE i \in Inked(name) : \A j \in Inked(name) : i <= j,
               CHOOSE i \in Inked(name) : \A j \in Inked(name) : i >= j))
  \o <<".js">>

NamedAsExpected ==
  (Step("create") /\ calls'[1].ok) =>
    /\ CreatedUri(lastOp', calls').name = ExpectedFileName(lastOp'.name)
    /\ CreatedUri(lastOp', calls') \in DOMAIN files'
    /\ files'[CreatedUri(lastOp', calls')].gtmItem.name = lastOp'.name

CreatedTestVar == Step("create") /\ calls'[1].ok /\ lastOp'.name = <<"Test", " ", "Var">>

\* C15 as stated: the file of a created variable is named by its display name
\* with illegal characters replaced by "_", trimmed, plus ".js"; the variable
\* "Test Var" gets the address variables/Test_Var.js
C15_FileNaming_Stated ==
  [][/\ NamedAsExpected
     /\ CreatedTestVar =>
          Uri(ContainerKey, "variables", <<>>, <<"Test", "_", "Var", ".js">>)
            \in DOMAIN files'
    ]_vars

\* C15 as amended: the same rule; a blank is not an illegal character, so the
\* variable "Test Var" gets the address variables/Test Var.js
C15_FileNaming ==
  [][/\ NamedAsExpected
     /\ CreatedTestVar =>
          /\ Uri(ContainerKey, "variables", <<>>, <<"Test", " ", "Var", ".js">>)
               \in DOMAIN files'
          /\ Uri(ContainerKey, "variables", <<>>, <<"Test", "_", "Var", ".js">>)
               \notin DOMAIN files'
    ]_vars

C15_Witness ==
  /\ lastOp.op = "create"
  /\ lastOp.name = <<"Test", " ", "Var">>
  /\ calls[1].ok
  /\ Uri(ContainerKey, "variables", <<>>, <<"Test", " ", "Var", ".js">>)
       \in DOMAIN files

\* the section files of the template folder that holds uri
FolderSections(uri) ==
  {files[v].sectionName :
     v \in {w \in DOMAIN files : /\ w.unit = uri.unit
                                  /\ w.folder = "templates"
                                  /\ w.dir = uri.dir}}

DocumentSections(template) ==
  {parseTemplateSections(template.templateData)[i].name :
     i \in 1..Len(parseTemplateSections(template.templateData))}

\* C16: the section files of a template folder are exactly the sections whose
\* markers occur in the document of the entity these files reference
C16_SectionInvariant ==
  \A uri \in DOMAIN files :
    files[uri].itemType = "template-section" =>
      FolderSections(uri) = DocumentSections(files[uri].gtmItem)

\* C17: readFile on a directory fails with a not-a-file error and on an address
\* that resolves to nothing with FileNotFound; readDirectory on a file fails
\* with FileNotADirectory and on an address that resolves to nothing with
\* FileNotFound
C17_KindMismatchDistinct ==
  /\ lastOp.op = "readFile" =>
       /\ lookup(lastOp.uri) = "directory" => lastOp.code = <<"FileIsADirectory">>
       /\ lookup(lastOp.uri) = "none" => lastOp.code = <<"FileNotFound">>
  /\ lastOp.op = "readDirectory" =>
       /\ lookup(lastOp.uri) = "file" => lastOp.code = <<"FileNotADirectory">>
       /\ lookup(lastOp.uri) = "none" => lastOp.code = <<"FileNotFound">>

GenericOps == {"createDirectory", "delete()", "rename()"}

\* C18: createDirectory, delete and rename of the file-system contract throw
\* NoPermissions for every address and change neither the tree, the pending
\* changes nor the service
C18_GenericOpsDenied ==
  [][(nOps' = nOps + 1 /\ lastOp'.op \in GenericOps) =>
        /\ lastOp'.code = <<"NoPermissions">>
        /\ calls' = <<>>
        /\ UNCHANGED <<files, root, containers, variableNames, modifiedFiles,
                       remote, deleted>>
    ]_vars

C18_Witness ==
  /\ lastOp.op = "delete()"
  /\ lastOp.code = <<"NoPermissions">>
  /\ lookup(lastOp.uri) = "file"
  /\ isModified(lastOp.uri)

LocalOps ==
  {"write", "rename", "discard", "discardAll", "unload", "readFile",
   "readDirectory", "stat"}

CallsOf(op) ==
  IF op = "load" THEN {"list"}
  ELSE IF op = "create" THEN {"create"}
  ELSE IF op = "delete" THEN {"delete"}
  ELSE IF op = "push" THEN {"updateTag", "updateVariable", "updateTemplate"}
  ELSE {}

\* C19: write, rename, discard, unload, read, list and stat make no call to
\* the service and leave it as it is; every call to the service is a list by
\* load, a create by entity creation, an update by push or a delete by entity
\* delete
C19_LocalOpsStayLocal ==
  [][/\ (nOps' = nOps + 1 /\ lastOp'.op \in LocalOps) =>
          (calls' = <<>> /\ UNCHANGED <<remote, deleted>>)
     /\ \A i \in 1..Len(calls') : calls'[i].op \in CallsOf(lastOp'.op)
     /\ (remote' # remote \/ deleted' # deleted) => calls' # <<>>
    ]_vars

C19_Witness ==
  /\ lastOp.op = "write"
  /\ calls = <<>>
  /\ isModified(lastOp.uri)
  /\ files[lastOp.uri].data = lastOp.code
  /\ remote = InitialRemote

\* C20: every discard, of one address or of all, fires the
\* modification-changed event exactly once
C20_DiscardFiresOnce ==
  lastOp.op \in {"discard", "discardAll"} => fired = 1

\* where a pending file is expected after a discard: at its own address, or,
\* with a staged rename, at the name derived from the display name of the
\* entity its node references
DiscardTarget(m) ==
  IF m.newName # NoName
  THEN Uri(m.uri.unit, m.uri.folder, <<>>, ItemFileName(files[m.uri].gtmItem.name))
  ELSE m.uri

\* C21: after a discard of all changes nothing is pending, every file that was
\* pending holds the canonical content of its entity, and every file with a
\* staged rename is back under the name derived from its entity's display name
C21_DiscardAll ==
  [][Step("discardAll") =>
        /\ modifiedFiles' = <<>>
        /\ \A i \in 1..Len(modifiedFiles) :
             /\ modifiedFiles[i].uri \in DOMAIN files
             /\ DiscardTarget(modifiedFiles[i]) \in DOMAIN files'
             /\ files'[DiscardTarget(modifiedFiles[i])].data =
                  Canonical(files'[DiscardTarget(modifiedFiles[i])])
             /\ files'[DiscardTarget(modifiedFiles[i])].gtmItem.path =
                  files[modifiedFiles[i].uri].gtmItem.path
    ]_vars

\* the update request a step of push has just sent
Sent == calls'[Len(calls')]
Sends == pc' # "idle" /\ calls' # <<>> /\ Sent.path \in DOMAIN remote

\* C26: every update request of a push carries the fingerprint the server
\* returned last for that entity, also on a retry after a partially failed
\* push for an item whose update succeeded in the failed push
C26_FreshFingerprint ==
  [][Sends => Sent.body.fingerprint = remote[Sent.path].fingerprint]_vars

\* C27: the address of every pending change resolves to a file node of a
\* loaded unit, also after an unload, a sign-out and an entity delete
C27_PendingResolves ==
  \A i \in 1..Len(modifiedFiles) :
     /\ modifiedFiles[i].uri \in DOMAIN files
     /\ modifiedFiles[i].uri.unit \in root

\* C30: between operations every tag or variable file with no pending change
\* is stored under the file name derived from the display name of the entity
\* its node references
C30_NameConsistency ==
  Idle => \A uri \in DOMAIN files :
            (files[uri].itemType \in {"tag", "variable"} /\ ~isModified(uri))
              => uri.name = ItemFileName(files[uri].gtmItem.name)

\* the sections before and after the one replaced, and its index
SectionsBefore == parseTemplateSections(arg.templateData)
SectionsAfter == parseTemplateSections(ret.templateData)
Replacing == SectionIndex(SectionsBefore, ret.sectionName)

C23_RoundTrip ==
  ret.fn = "rebuildTemplate" =>
     parseTemplateSections(ret.templateData)
       = parseTemplateSections(arg.templateData)

C23_Witness ==
  /\ ret.fn = "rebuildTemplate"
  /\ Len(SectionsBefore) = 2
  /\ SectionsBefore[1].content # <<>>
  /\ ret.templateData # arg.templateData

\* the index of the code-bearing parameter of an entity, 0 when it has none
CodeBearing(item) ==
  IF \E i \in 1..Len(item.parameter) : item.parameter[i].key \in {"html", "javascript"}
  THEN CHOOSE i \in 1..Len(item.parameter) :
         item.parameter[i].key \in {"html", "javascript"}
  ELSE 0

\* C24: for an entity with a code-bearing parameter updateCode changes the
\* value of that parameter only and extractCode of the result is the code
\* given; for an entity without parameters updateCode returns the entity as
\* it is and extractCode returns the empty string
C24_UpdateExtract ==
  /\ (ret.fn = "updateCode" /\ CodeBearing(arg.item) # 0) =>
        /\ \A field \in {"kind", "path", "name", "fingerprint", "templateData"} :
             ret.item[field] = arg.item[field]
        /\ Len(ret.item.parameter) = Len(arg.item.parameter)
        /\ \A i \in 1..Len(arg.item.parameter) :
             /\ ret.item.parameter[i].key = arg.item.parameter[i].key
             /\ ret.item.parameter[i].type = arg.item.parameter[i].type
             /\ ret.item.parameter[i].value =
                  IF i = CodeBearing(arg.item) THEN ret.code
                  ELSE arg.item.parameter[i].value
        /\ extractCode(ret.item) = ret.code
  /\ (ret.fn = "updateCode" /\ arg.item.parameter = <<>>) => ret.item = arg.item
  /\ (ret.fn = "extractCode" /\ arg.item.parameter = <<>>) => ret.code = <<>>

C24_Witness ==
  /\ ret.fn = "updateCode"
  /\ Len(arg.item.parameter) = 2
  /\ CodeBearing(arg.item) # 0
  /\ ret.item # arg.item

\* the file an operation that ran during the push was about
Touched ==
  {lastOp.uri} \cup
    (IF lastOp.op = "rename"
     THEN {Uri(lastOp.uri.unit, lastOp.uri.folder, <<>>, ItemFileName(lastOp.name))}
     ELSE {})

\* the buffer differs from the canonical content by more than surrounding
\* whitespace, or the file is not under the name of its entity
Edited(uri) ==
  \/ trim(files[uri].data) # trim(Canonical(files[uri]))
  \/ /\ files[uri].itemType \in {"tag", "variable"}
     /\ uri.name # ItemFileName(files[uri].gtmItem.name)

PushReturns == pc # "idle" /\ pc' = "idle"

\* C25: when a write, rename or discard has run at a suspension point of a
\* push, then after the push has returned the file it was about is reported
\* as modified if its buffer differs from its canonical content or it is
\* stored under a staged name
C25_NoLostEdit ==
  [][(PushReturns /\ lastOp.op \in {"write", "rename", "discard"}) =>
        \A uri \in Touched \cap DOMAIN files' :
           Edited(uri)' => isModified(uri)'
    ]_vars

\* a load command resumes from its list calls
LoadResumes == loading' < loading

\* C28: when a load command resumes after another load of the same pair has
\* populated the unit, it leaves the populated subtree and the edits made to
\* it as they are
C28_LoadedOnce ==
  [][(LoadResumes /\ hasContainer(ContainerName, WorkspaceName)) =>
        UNCHANGED <<files, root, containers, variableNames>>
    ]_vars

\* the Push Changes command finishes
CommandEnds == lastOp.op = "push" /\ lastOp'.op = "pushCommand"

\* C29: when the Push Changes command finishes, the lists of every loaded
\* unit that had pending changes have been fetched again, after a push with
\* failures as after one without, and every file of a unit whose lists
\* arrived references the entity the service holds
C29_ReloadAfterPush ==
  [][CommandEnds =>
        \A key \in affectedContainerKeys \cap containers :
           /\ \E i \in 1..Len(calls') : calls'[i].op = "list"
           /\ (\E i \in 1..Len(calls') : calls'[i].op = "list" /\ calls'[i].ok) =>
                \A uri \in DOMAIN files' :
                   uri.unit = key =>
                     files'[uri].gtmItem = remote'[files'[uri].gtmItem.path]
    ]_vars

\* the response of the outstanding update call is handled
Answered == pc # "idle" /\ nOps' = nOps /\ push' # push

\* C31: an operation of a push whose remote update call succeeded is counted
\* in success and adds no failure and no error, whatever the state of the
\* tree and of the pending set
C31_FailedOnlyIfCallFailed ==
  [][(Answered /\ push.inflight[1].ok) =>
        /\ push'.success = push.success + 1
        /\ push'.failed = push.failed
        /\ push'.errors = push.errors
    ]_vars

\* the addresses of the changes a push was started with
Pushed == {push.before[i].uri : i \in 1..Len(push.before)}

\* C32: after a push without a failure the buffer of every pushed file is the
\* canonical content of the entity its node references now, for section files
\* as for tags and variables
C32_PushedBufferCanonical ==
  (PushReturned /\ result.failed = 0) =>
     \A uri \in Pushed \cap DOMAIN files :
        files[uri].data = Canonical(files[uri])

\* the name a variable file shows: the staged name, else the entity's name
ShownName(uri) ==
  IF RenameStaged(uri) THEN ModGet(modifiedFiles, uri).newName
  ELSE files[uri].gtmItem.name

VariableFiles(unit) ==
  {uri \in DOMAIN files : uri.unit = unit /\ files[uri].itemType = "variable"}

CachedNames(unit) ==
  {GetNames(variableNames, unit)[i] : i \in 1..Len(GetNames(variableNames, unit))}

\* C33: after a rename of a variable file the cached variable names of its
\* unit hold the staged name in place of every earlier one, and after the
\* discard of a renamed variable file they hold the names of the entities
\* again: the cached names are the names the variable files show
C33_NameCacheRoundTrip ==
  (Idle /\ lastOp.op \in {"rename", "discard"} /\ lastOp.uri.folder = "variables"
        /\ lastOp.name # NoName) =>
     CachedNames(lastOp.uri.unit) =
       {ShownName(uri) : uri \in VariableFiles(lastOp.uri.unit)}

\* the address a rename was given and the address it returns
RenameFrom == lastOp'.uri
RenameTo ==
  Uri(lastOp'.uri.unit, lastOp'.uri.folder, <<>>, ItemFileName(lastOp'.name))

\* the returned address holds the file and the re-keyed pending change
ReKeyed ==
  /\ RenameTo \in DOMAIN files'
  /\ files'[RenameTo].data = files[RenameFrom].data
  /\ files'[RenameTo].gtmItem = files[RenameFrom].gtmItem
  /\ ModHas(modifiedFiles', RenameTo)
  /\ ModGet(modifiedFiles', RenameTo).newName = lastOp'.name
  /\ ModGet(modifiedFiles', RenameTo).newCode =
       IF ModHas(modifiedFiles, RenameFrom)
       THEN ModGet(modifiedFiles, RenameFrom).newCode
       ELSE files[RenameFrom].data

OldKeyGone ==
  /\ RenameFrom \notin DOMAIN files'
  /\ ~ModHas(modifiedFiles', RenameFrom)

C35_DeleteTagsAndVariablesOnly ==
  [][Step("deleteFile") =>
        /\ calls' # <<>> => files[lastOp'.uri].itemType \in {"tag", "variable"}
        /\ files[lastOp'.uri].itemType = "template-section" =>
             /\ calls' = <<>>
             /\ UNCHANGED <<files, remote, deleted>>
    ]_vars

\* the lists of the service have just populated the unit
Loaded == lastOp.op = "load" /\ calls = <<Call("list", "", NoBody, TRUE)>>

FolderOf(kind) ==
  IF kind = "tag" THEN "tags" ELSE IF kind = "variable" THEN "variables"
  ELSE "templates"

\* the file nodes of the unit that reference the entity
NodesOf(item) ==
  {uri \in DOMAIN files :
     /\ uri.unit = ContainerKey
     /\ uri.folder = FolderOf(item.kind)
     /\ files[uri].gtmItem = item}

HasContent(item) ==
  IF item.kind = "template" THEN parseTemplateSections(item.templateData) # <<>>
  ELSE extractCode(item) # <<>>

\* C36: after a load the tags and variables folders hold a file for exactly
\* the remote tags and variables with code, the templates folder a folder for
\* exactly the remote templates with a section, and the cached variable names
\* are the names of all remote variables
C36_LoadFiltering ==
  Loaded =>
     /\ \A p \in DOMAIN remote : HasContent(remote[p]) <=> NodesOf(remote[p]) # {}
     /\ \A uri \in DOMAIN files :
          \E p \in DOMAIN remote : uri \in NodesOf(remote[p])
     /\ GetNames(variableNames, ContainerKey) =
          [i \in 1..Len(ListOf(VariablePaths)) |-> ListOf(VariablePaths)[i].name]

\* C37: a push that has started eventually returns; while it runs and when it
\* has returned it has made at most one update call per template with a
\* pending section and at most one per pending tag or variable change, and
\* at most one call is outstanding
C37_PushTerminates ==
  /\ [](pc # "idle" => <>(pc = "idle"))
  /\ [](lastOp.op = "push" =>
          /\ \A i, j \in 1..Len(TemplateCalls(calls)) :
               i # j => TemplateCalls(calls)[i].path # TemplateCalls(calls)[j].path
          /\ Len(TemplateCalls(calls)) <= Cardinality(PendingTemplates(push.before))
          /\ Len(ItemCalls(calls)) <= Len(ItemMods(push.before))
          /\ Len(push.inflight) <= 1
          /\ pc # "idle" <=> Len(push.inflight) = 1)

C37_Witness ==
  /\ PushReturned
  /\ nPush = 1
  /\ Len(TemplateCalls(calls)) = 1
  /\ Len(ItemCalls(calls)) = 1
  /\ Len(SectionMods(push.before)) = 2

====
